---- MODULE Spec2Model ----
(***************************************************************************)
(* Water Quality Predictor (app.py).                                       *)
(*                                                                         *)
(* app.py is a Streamlit script: the framework executes it from its first  *)
(* line to its last once when the browser session opens and once more for  *)
(* every widget interaction (slider move, text edit, button press).  Each  *)
(* execution binds the module-level names again, reads the widgets and     *)
(* renders the page.  One action of this model is one interaction together *)
(* with the complete script run it causes.                                 *)
(*                                                                         *)
(* A one-row pandas DataFrame is a sequence of columns, each a record      *)
(* [name, value]; column names are unique within a frame.  Pollutant       *)
(* concentrations are floats in the program and integers here.             *)
(***************************************************************************)
EXTENDS Integers, Sequences, FiniteSets, TLC

\* Bounds of the model.
MaxCols == 3        \* longest model_columns list enumerated
MaxRuns == 6        \* script runs per session explored

\* Program constants.
MinYear == 2000
MaxYear == 2100
DefaultYear == 2025
NumTargets == 6
GridColumns == 3

DefaultStation == "1"

Years == {MinYear, DefaultYear, MaxYear}
Stations == {"", "1", "2", "99"}
ColumnNames == {"year", "id_1", "id_2"}

\* The contents model_columns.pkl may have: every list of column names up
\* to MaxCols long.
ColumnLists == UNION {[1..n -> ColumnNames] : n \in 0..MaxCols}

\* The contents pollution_model.pkl may have.  The estimator is opaque to
\* the script; what the script can observe of it is that predict either
\* raises or returns one row per input row.  It is a fitted multi-output
\* regressor: it accepts exactly n_features_in columns.
Estimators == [n_features_in : 1..MaxCols]

Pollutants == <<"O2", "NO3", "NO2", "SO4", "PO4", "Cl-">>
PollutantUnits == <<"mg/L", "mg/L", "mg/L", "mg/L", "mg/L", "mg/L">>

VARIABLES
    model_pkl,            \* file pollution_model.pkl
    columns_pkl,          \* file model_columns.pkl
    model,                \* module-level binding, line 10
    model_cols,           \* module-level binding, line 11
    loads,                \* times lines 10-11 have been executed
    year_input,           \* slider value
    station_id,           \* text input value
    predict_button,       \* TRUE in the run caused by pressing the button
    input_encoded,        \* frame as it is at line 113; <<>> when unbound
    predicted_pollutants, \* row returned by model.predict; <<>> when unbound
    encode_calls,         \* executions of lines 104-110 in the last run
    predict_calls,        \* executions of model.predict in the last run
    raised,               \* exception that escaped the last run, or "none"
    page,                 \* elements the last run rendered in col1
    served                \* history: the requests encoded so far, in order

vars == <<model_pkl, columns_pkl, model, model_cols, loads, year_input,
          station_id, predict_button, input_encoded, predicted_pollutants,
          encode_calls, predict_calls, raised, page, served>>

----------------------------------------------------------------------------
\* Helpers on frames.

Min(a, b) == IF a < b THEN a ELSE b

Range(s) == {s[i] : i \in 1..Len(s)}

ColumnsOf(frame) == [i \in 1..Len(frame) |-> frame[i].name]

ValuesOf(frame) == [i \in 1..Len(frame) |-> frame[i].value]

\* col in input_encoded.columns
HasColumn(frame, c) == \E i \in 1..Len(frame) : frame[i].name = c

ColumnOf(frame, c) == frame[CHOOSE i \in 1..Len(frame) : frame[i].name = c]

----------------------------------------------------------------------------
\* joblib.load: deserialises the file; the files never change.
Load(file) == file

\* pd.DataFrame({'year': [year_input], 'id': [station_id]})
InputDf(y, s) == [year |-> y, id |-> s]

GetDummiesDropFirst(df) == <<[name |-> "year", value |-> df.year]>>

\* pd.get_dummies(input_df, columns=['id']): the untouched column 'year'
\* first, then one indicator column per category of 'id'; a single row has
\* a single category, so one column 'id_<station_id>' holding 1 (True).
GetDummies(df) ==
    <<[name |-> "year", value |-> df.year],
      [name |-> "id_" \o df.id, value |-> 1]>>

RECURSIVE FillFrom(_, _, _)
\* for col in model_cols: if col not in input_encoded.columns:
\*     input_encoded[col] = 0
FillFrom(frame, cols, i) ==
    IF i > Len(cols) THEN frame
    ELSE FillFrom(IF HasColumn(frame, cols[i]) THEN frame
                  ELSE Append(frame, [name |-> cols[i], value |-> 0]),
                  cols, i + 1)

ZeroFillWritesCols(env) ==
    LET filled == FillFrom(env.input_encoded, env.model_cols, 1)
    IN  [input_encoded |-> filled, model_cols |-> ColumnsOf(filled)]

\* The zero-fill loop, as a transformer of the names it can touch.
ZeroFill(env) ==
    [env EXCEPT !.input_encoded = FillFrom(env.input_encoded, env.model_cols, 1)]

\* input_encoded[model_cols] raises KeyError when a label is missing.
MissingLabel(frame, cols) == \E i \in 1..Len(cols) : ~HasColumn(frame, cols[i])

SelectKeepExtra(frame, cols) ==
    [i \in 1..Len(cols) |-> ColumnOf(frame, cols[i])]
        \o SelectSeq(frame, LAMBDA c : c.name \notin Range(cols))

\* input_encoded[model_cols]: the columns named by model_cols, in that order.
SelectColumns(frame, cols) == [i \in 1..Len(cols) |-> ColumnOf(frame, cols[i])]

ReorderSkipped(env) == env

\* input_encoded = input_encoded[model_cols]
Reorder(env) ==
    [env EXCEPT !.input_encoded = SelectColumns(env.input_encoded, env.model_cols)]

\* Lines 104-110.
Encode(y, s, cols) ==
    LET env0 == [input_encoded |-> GetDummies(InputDf(y, s)), model_cols |-> cols]
        env1 == ZeroFill(env0)
    IN  IF MissingLabel(env1.input_encoded, env1.model_cols)
        THEN [raised |-> "KeyError", env |-> env1]
        ELSE [raised |-> "none", env |-> Reorder(env1)]

----------------------------------------------------------------------------
\* model.predict(input_encoded)[0]

RECURSIVE Dot(_, _)
Dot(frame, i) == IF i > Len(frame) THEN 0 ELSE i * frame[i].value + Dot(frame, i + 1)

PredictStateful(m, frame) ==
    IF Len(frame) # m.n_features_in
    THEN [raised |-> "ValueError", row |-> <<>>]
    ELSE [raised |-> "none",
          row |-> [k \in 1..NumTargets |-> k + Dot(frame, 1) + Len(predicted_pollutants)]]

\* The estimator rejects a frame of the wrong width; otherwise it returns
\* one row of NumTargets values, a function of the frame alone.
Predict(m, frame) ==
    IF Len(frame) # m.n_features_in
    THEN [raised |-> "ValueError", row |-> <<>>]
    ELSE [raised |-> "none", row |-> [k \in 1..NumTargets |-> k + Dot(frame, 1)]]

----------------------------------------------------------------------------
\* Rendering (col1).

Element(kind, label, value, unit, col) ==
    [kind |-> kind, label |-> label, value |-> value, unit |-> unit, col |-> col]

Plain(kind) == Element(kind, "", 0, "", 0)

MetricsFirstRow(labels, values, units) ==
    [i \in 1..Min(GridColumns, Min(Len(labels), Min(Len(values), Len(units)))) |->
        Element("metric", labels[i], values[i], units[i], (i - 1) % GridColumns)]

\* for i, (pollutant, value, unit) in enumerate(zip(...)):
\*     with cols[i % 3]: st.metric(...)
\* zip stops at the shortest of its arguments.
Metrics(labels, values, units) ==
    [i \in 1..Min(Len(labels), Min(Len(values), Len(units))) |->
        Element("metric", labels[i], values[i], units[i], (i - 1) % GridColumns)]

\* if not station_id
StationMissingNever(s) == FALSE

StationMissing(s) == s = ""

Unbound ==
    [input_encoded |-> <<>>, predicted_pollutants |-> <<>>, encode_calls |-> 0,
     predict_calls |-> 0, raised |-> "none"]

\* Lines 103-157: encode, predict, render the result.
PredictBlock(y, s, m, cols) ==
    LET enc == Encode(y, s, cols)
        res == Predict(m, enc.env.input_encoded)
        base == [Unbound EXCEPT !.input_encoded = enc.env.input_encoded,
                                !.encode_calls = 1]
    IN  IF enc.raised # "none"
        THEN [base EXCEPT !.raised = enc.raised]
                  @@ [model_cols |-> enc.env.model_cols, page |-> <<>>]
        ELSE IF res.raised # "none"
        THEN [base EXCEPT !.predict_calls = 1, !.raised = res.raised]
                  @@ [model_cols |-> enc.env.model_cols, page |-> <<>>]
        ELSE IF Len(Pollutants) # Len(res.row)
        \* pd.DataFrame of columns of unequal length raises, after the
        \* metrics have been rendered
        THEN [base EXCEPT !.predict_calls = 1, !.raised = "ValueError",
                          !.predicted_pollutants = res.row]
                  @@ [model_cols |-> enc.env.model_cols,
                      page |-> <<Plain("success")>>
                               \o Metrics(Pollutants, res.row, PollutantUnits)]
        ELSE [base EXCEPT !.predict_calls = 1, !.predicted_pollutants = res.row]
                  @@ [model_cols |-> enc.env.model_cols,
                      page |-> <<Plain("success")>>
                               \o Metrics(Pollutants, res.row, PollutantUnits)
                               \o <<Plain("bar_chart"), Plain("guide")>>]

Col1NoButtonCheck(y, s, btn, m, cols) ==
    IF StationMissing(s)
    THEN Unbound @@ [model_cols |-> cols, page |-> <<Plain("warning")>>]
    ELSE PredictBlock(y, s, m, cols)

\* Lines 96-182.
Col1(y, s, btn, m, cols) ==
    IF ~btn
    THEN Unbound @@ [model_cols |-> cols, page |-> <<Plain("info")>>]
    ELSE IF StationMissing(s)
    THEN Unbound @@ [model_cols |-> cols, page |-> <<Plain("warning")>>]
    ELSE PredictBlock(y, s, m, cols)

----------------------------------------------------------------------------
\* One complete execution of the script with the widgets holding y and s,
\* btn telling whether the button caused it.
Rerun(y, s, btn) ==
    LET m == Load(model_pkl)
        cols == Load(columns_pkl)
        out == Col1(y, s, btn, m, cols)
    IN  /\ loads < MaxRuns
        /\ loads' = loads + 1
        /\ model' = m
        /\ model_cols' = out.model_cols
        /\ year_input' = y
        /\ station_id' = s
        /\ predict_button' = btn
        /\ input_encoded' = out.input_encoded
        /\ predicted_pollutants' = out.predicted_pollutants
        /\ encode_calls' = out.encode_calls
        /\ predict_calls' = out.predict_calls
        /\ raised' = out.raised
        /\ page' = out.page
        /\ served' = IF out.encode_calls = 0 THEN served
                     ELSE Append(served, [year |-> y, station_id |-> s,
                                          vector |-> out.input_encoded,
                                          raised |-> out.raised,
                                          result |-> out.predicted_pollutants])
        /\ UNCHANGED <<model_pkl, columns_pkl>>

\* The session opens: first run of the script, widgets at their defaults.
Init ==
    /\ model_pkl \in Estimators
    /\ columns_pkl \in ColumnLists
    /\ model = Load(model_pkl)
    /\ model_cols = Load(columns_pkl)
    /\ loads = 1
    /\ year_input = DefaultYear
    /\ station_id = DefaultStation
    /\ predict_button = FALSE
    /\ input_encoded = <<>>
    /\ predicted_pollutants = <<>>
    /\ encode_calls = 0
    /\ predict_calls = 0
    /\ raised = "none"
    /\ page = <<Plain("info")>>
    /\ served = <<>>

MoveSlider == \E y \in Years : y # year_input /\ Rerun(y, station_id, FALSE)

EditText == \E s \in Stations : s # station_id /\ Rerun(year_input, s, FALSE)

PressButton == Rerun(year_input, station_id, TRUE)

Next == MoveSlider \/ EditText \/ PressButton

Spec == Init /\ [][Next]_vars

----------------------------------------------------------------------------
\* Properties.

IdColumn(s) == "id_" \o s

MetricsShown == SelectSeq(page, LAMBDA e : e.kind = "metric")

\* C1: whenever model.predict is called, the frame handed to it has
\* exactly the columns of model_cols, in model_cols's order: same length,
\* the same name at every position.
C1_ColumnAlignment ==
    predict_calls = 1 =>
        /\ station_id # ""
        /\ Len(input_encoded) = Len(model_cols)
        /\ \A i \in 1..Len(model_cols) : input_encoded[i].name = model_cols[i]

C1_Witness ==
    /\ predict_calls = 1
    /\ station_id = "2"
    /\ model_cols = <<"id_2", "year", "id_1">>
    /\ ColumnsOf(input_encoded) = <<"id_2", "year", "id_1">>

\* C2: when the column id_<station_id> is in model_cols, the encoded frame
\* holds the supplied year in the year column, 1 in the column
\* id_<station_id> and 0 in every other column; ['year','id_1','id_2'] with
\* (2025, '1') gives [2025, 1, 0].
C2_KnownStationOneHot ==
    /\ (encode_calls = 1 /\ IdColumn(station_id) \in Range(model_cols)) =>
          /\ Len(input_encoded) = Len(model_cols)
          /\ \A i \in 1..Len(model_cols) :
                input_encoded[i].value =
                    IF model_cols[i] = "year" THEN year_input
                    ELSE IF model_cols[i] = IdColumn(station_id) THEN 1
                    ELSE 0
    /\ (encode_calls = 1 /\ model_cols = <<"year", "id_1", "id_2">>
            /\ year_input = 2025 /\ station_id = "1") =>
          ValuesOf(input_encoded) = <<2025, 1, 0>>

C2_Witness ==
    /\ encode_calls = 1
    /\ model_cols = <<"year", "id_1", "id_2">>
    /\ year_input = 2025
    /\ station_id = "1"
    /\ ValuesOf(input_encoded) = <<2025, 1, 0>>

\* C3: when station_id is non-empty and the column id_<station_id> is not
\* in model_cols, encoding raises nothing, the frame has no column
\* id_<station_id>, the year column holds the supplied year, every other
\* column of model_cols holds 0, and model.predict is called;
\* ['year','id_1','id_2'] with (2025, '99') gives [2025, 0, 0].
C3_UnknownStationZeroRow ==
    /\ (predict_button /\ station_id # ""
            /\ IdColumn(station_id) \notin Range(model_cols)) =>
          /\ encode_calls = 1
          /\ raised # "KeyError"
          /\ predict_calls = 1
          /\ ~HasColumn(input_encoded, IdColumn(station_id))
          /\ Len(input_encoded) = Len(model_cols)
          /\ \A i \in 1..Len(model_cols) :
                input_encoded[i].value =
                    IF model_cols[i] = "year" THEN year_input ELSE 0
    /\ (predict_button /\ model_cols = <<"year", "id_1", "id_2">>
            /\ year_input = 2025 /\ station_id = "99") =>
          ValuesOf(input_encoded) = <<2025, 0, 0>>

C3_Witness ==
    /\ predict_button
    /\ model_cols = <<"year", "id_1", "id_2">>
    /\ year_input = 2025
    /\ station_id = "99"
    /\ ValuesOf(input_encoded) = <<2025, 0, 0>>
    /\ Len(predicted_pollutants) = NumTargets

\* C4: a run caused by the button with an empty station_id renders the
\* warning and nothing else in col1: the encoding is not executed,
\* model.predict is not called, no result is bound or displayed.
C4_EmptyStationWarns ==
    (predict_button /\ station_id = "") =>
        /\ page = <<Plain("warning")>>
        /\ encode_calls = 0
        /\ predict_calls = 0
        /\ input_encoded = <<>>
        /\ predicted_pollutants = <<>>
        /\ raised = "none"

C4_Witness ==
    /\ predict_button
    /\ station_id = ""
    /\ page = <<Plain("warning")>>

\* C5 (as stated): the artifacts are loaded exactly once for the lifetime
\* of the process, whatever the user does.
C5_LoadedExactlyOnce == loads = 1

\* C6 (as stated): every run caused by an interaction executes the
\* encoding and model.predict exactly once.
C6_ExactlyOncePerInteraction ==
    loads > 1 => (encode_calls = 1 /\ predict_calls = 1)

\* C6 (amended): every run executes the encoding and model.predict at most
\* once each; it executes both exactly once when it was caused by the
\* predict button with a non-empty station_id, and neither otherwise.
C6_OncePerValidPress ==
    /\ encode_calls \in {0, 1}
    /\ predict_calls \in {0, 1}
    /\ (predict_button /\ station_id # "") => (encode_calls = 1 /\ predict_calls = 1)
    /\ ~(predict_button /\ station_id # "") => (encode_calls = 0 /\ predict_calls = 0)

C6_Witness ==
    /\ loads > 2
    /\ predict_button
    /\ station_id = "2"
    /\ encode_calls = 1
    /\ predict_calls = 1

C8_ArtifactsReadOnly ==
    [][/\ model_cols' = model_cols
       /\ model' = model
       /\ model_cols' = columns_pkl
       /\ model' = model_pkl]_vars

C8_Witness ==
    /\ encode_calls = 1
    /\ Len(model_cols) = MaxCols
    /\ \E i \in 1..Len(input_encoded) :
          input_encoded[i].value = 0 /\ input_encoded[i].name # IdColumn(station_id)
    /\ model_cols = columns_pkl

\* C9: a run displays either no metric or exactly 6, the i-th labelled by
\* the i-th pollutant and showing the i-th predicted value.
C9_AllSixOrNone ==
    /\ Len(MetricsShown) \in {0, NumTargets}
    /\ Len(MetricsShown) = NumTargets =>
          \A i \in 1..NumTargets :
              /\ MetricsShown[i].label = Pollutants[i]
              /\ MetricsShown[i].value = predicted_pollutants[i]
              /\ MetricsShown[i].unit = "mg/L"

C9_Witness ==
    /\ Len(MetricsShown) = NumTargets
    /\ predict_calls = 1
    /\ MetricsShown[NumTargets].label = "Cl-"

\* C10 (as stated): when model.predict raises, the script shows a failure
\* message of its own, calls predict once only and displays no result.
C10_RejectionSurfaced ==
    (predict_calls = 1 /\ raised # "none") =>
        /\ \E i \in 1..Len(page) : page[i].kind \in {"error", "warning"}
        /\ Len(MetricsShown) = 0
        /\ predicted_pollutants = <<>>

====
